---- MODULE Spec2Model ----
(***************************************************************************)
(* fordev.generators: one generator function per identifier kind.  Each   *)
(* call validates its arguments, issues at most one request through       *)
(* fordev_request, filters the response and formats the result.           *)
(*                                                                         *)
(* A call is one action.  The state is what the caller can observe once    *)
(* the call is over: how it ended (pc), the value returned or the          *)
(* exception raised (result), the requests that went out (wire), the       *)
(* response the transport produced (resp) and the filters/decoders that    *)
(* were run on the response data (applied).  The module-level reference    *)
(* tables are state too (tables): they outlive every call.                 *)
(*                                                                         *)
(* Several callers may be inside a generator at once (calls): a call is    *)
(* then two steps, split where it blocks on the network.                   *)
(*                                                                         *)
(* Python strings that the code transforms (uf_code, type_, sex) are       *)
(* sequences of one-character strings; str.upper() turns them into TLA+    *)
(* strings.  Texts coming from the remote service are sequences of lines,  *)
(* a line being [label, value].  Python values whose type varies are       *)
(* tagged records [kind, v].                                               *)
(***************************************************************************)
EXTENDS Integers, Sequences, FiniteSets, TLC

VARIABLES pc, op, args, wire, resp, applied, result, tables, calls

vars == <<pc, op, args, wire, resp, applied, result, tables, calls>>

(***************************************************************************)
(* Bounds of the inputs.                                                   *)
(***************************************************************************)
\* how far beyond the ends of a numeric range the integer arguments go
IntMargin == 1
\* seeds of the random generator: 0..MaxSeed
MaxSeed == 2
\* longest uf_code made of ProbeChars
MaxProbeLen == 3

(***************************************************************************)
(* Python values.                                                          *)
(***************************************************************************)
PyStr(s) == [kind |-> "str", v |-> s]
PyInt(i) == [kind |-> "int", v |-> i]
PyList(s) == [kind |-> "list", v |-> s]
PyDict(d) == [kind |-> "dict", v |-> d]

\* raise ValueError(msg_error)
ValueError(m) == [exc |-> "ValueError", msg |-> m]

\* The message of a numeric-range check: the f-string's text, the value
\* interpolated into it and the range its last sentence cites.
RangeMsg(text, value, lo, hi) ==
    [text |-> text, value |-> value, cites |-> <<lo, hi>>]

\* The message of a check against a set of options.
OptionMsg(text, value) == [text |-> text, value |-> value, cites |-> <<>>]

(***************************************************************************)
(* str.upper()                                                             *)
(***************************************************************************)
LowerCase == <<"a", "b", "c", "d", "e", "f", "g", "h", "i", "j", "k", "l", "m",
               "n", "o", "p", "q", "r", "s", "t", "u", "v", "w", "x", "y", "z">>
UpperCase == <<"A", "B", "C", "D", "E", "F", "G", "H", "I", "J", "K", "L", "M",
               "N", "O", "P", "Q", "R", "S", "T", "U", "V", "W", "X", "Y", "Z">>

upper_char(c) ==
    IF \E i \in 1..26 : LowerCase[i] = c
    THEN UpperCase[CHOOSE i \in 1..26 : LowerCase[i] = c]
    ELSE c

lower_char(c) ==
    IF \E i \in 1..26 : UpperCase[i] = c
    THEN LowerCase[CHOOSE i \in 1..26 : UpperCase[i] = c]
    ELSE c

RECURSIVE upper(_)
upper(s) == IF s = <<>> THEN "" ELSE upper_char(Head(s)) \o upper(Tail(s))

(***************************************************************************)
(* Static reference tables (fordev.consts).                                *)
(***************************************************************************)
UF_LETTERS ==
    << <<"A","C">>, <<"A","L">>, <<"A","P">>, <<"A","M">>, <<"B","A">>,
       <<"C","E">>, <<"D","F">>, <<"E","S">>, <<"G","O">>, <<"M","A">>,
       <<"M","T">>, <<"M","S">>, <<"M","G">>, <<"P","A">>, <<"P","B">>,
       <<"P","R">>, <<"P","E">>, <<"P","I">>, <<"R","J">>, <<"R","N">>,
       <<"R","S">>, <<"R","O">>, <<"R","R">>, <<"S","C">>, <<"S","P">>,
       <<"S","E">>, <<"T","O">> >>

ALL_UF_CODE == [i \in 1..Len(UF_LETTERS) |-> upper(UF_LETTERS[i])]

BRAND_NAMES ==
    <<"Acura", "Agrale", "Alfa Romeo", "AM Gen", "Asia Motors",
      "ASTON MARTIN", "Audi", "BMW", "BRM", "Buggy", "Bugre",
      "Cadillac", "CBT Jipe", "CHANA", "CHANGAN", "CHERY", "Chrysler",
      "Citroen", "Cross Lander", "Daewoo", "Daihatsu", "Dodge", "EFFA",
      "Engesa", "Envemo", "Ferrari", "Fiat", "Fibravan", "Ford",
      "FOTON", "Fyber", "GEELY", "GM - Chevrolet", "GREAT WALL", "Gurgel",
      "HAFEI", "Honda", "Hyundai", "Isuzu", "JAC", "Jaguar",
      "Jeep", "JINBEI", "JPX", "Kia Motors", "Lada", "LAMBORGHINI",
      "Land Rover", "Lexus", "LIFAN", "LOBINI", "Lotus", "Mahindra",
      "Maserati", "Matra", "Mazda", "Mercedes-Benz", "Mercury", "MG",
      "MINI", "Mitsubishi", "Miura", "Nissan", "Peugeot", "Plymouth",
      "Pontiac", "Porsche", "RAM", "RELY", "Renault", "Rolls-Royce",
      "Rover", "Saab", "Saturn", "Seat", "SHINERAY", "smart",
      "SSANGYONG", "Subaru", "Suzuki", "TAC", "Toyota", "Troller",
      "Volvo", "VW - VolksWagen", "Wake", "Walk">>

\* code -> {'code': <the remote service's code>, 'brand_name': <name>}
ALL_VEHICLE_BRANDS ==
    [i \in 1..Len(BRAND_NAMES) |->
        [code |-> [kind |-> "fipe", v |-> BRAND_NAMES[i]],
         brand_name |-> BRAND_NAMES[i]]]

\* code -> the remote service's flag of the card brand
ALL_BANK_FLAGS ==
    <<"master", "visa16", "amex", "diners", "discover", "enroute", "jcb",
      "voyager", "hipercard", "aura">>

\* the tables as the import of fordev.consts leaves them
LoadedTables ==
    [ALL_UF_CODE |-> ALL_UF_CODE,
     ALL_VEHICLE_BRANDS |-> ALL_VEHICLE_BRANDS,
     ALL_BANK_FLAGS |-> ALL_BANK_FLAGS]

(***************************************************************************)
(* random.sample and random.choice, driven by a seeded generator.          *)
(***************************************************************************)
\* the i-th draw of the generator seeded with seed, below m
randbelow(seed, i, m) == ((seed + 1) * (7 * i + 3) + seed * seed) % m

DropAt(s, j) == SubSeq(s, 1, j - 1) \o SubSeq(s, j + 1, Len(s))

\* k draws without replacement: each draw removes its element from the pool
RECURSIVE sample_from(_, _, _, _)
sample_from(pool, k, seed, i) ==
    IF k = 0 THEN <<>>
    ELSE LET j == 1 + randbelow(seed, i, Len(pool))
         IN  <<pool[j]>> \o sample_from(DropAt(pool, j), k - 1, seed, i + 1)

random_sample(population, k, seed) == sample_from(population, k, seed, 0)

random_choice(population, seed) ==
    population[1 + randbelow(seed, 0, Len(population))]

(***************************************************************************)
(* fordev.validators, fordev.core and fordev.filters.                      *)
(***************************************************************************)
\* raise_for_invalid_uf(uf, include_blank=False) raises ValueError exactly when
\* this is TRUE
raise_for_invalid_uf(uf, include_blank) ==
    ~ (\/ \E i \in DOMAIN tables.ALL_UF_CODE : tables.ALL_UF_CODE[i] = uf
       \/ include_blank /\ uf = "")

invalid_uf_error(uf) == ValueError(OptionMsg("The UF code is invalid.", uf))

Line(l, t) == [label |-> l, value |-> t]

\* error texts of the remote service
ErrorTexts == { <<Line("", "Limite de requisicoes excedido")>> }

\* bodies the remote service answers with, by kind of response
Bodies(kind) ==
    CASE kind = "scalar" ->
            { <<Line("", "123.456.789-09")>>, <<Line("", "12345678909")>> }
      [] kind = "bank_account" ->
            { <<Line("markup", "<div>"), Line("conta_corrente", "01234-5"),
                Line("agencia", "0789"), Line("banco", "Bradesco")>>,
              <<Line("conta_corrente", "99999-0")>> }
      [] kind = "vehicle" ->
            { <<Line("marca", "Fiat"), Line("modelo", "Uno"),
                Line("placa_veiculo", "ABC-1234")>>,
              <<Line("markup", "<br>"), Line("marca", "Audi")>> }
      [] kind = "credit_card" ->
            { <<Line("cartao_numero", "5500 0000 0000 0004"),
                Line("data_validade", "01/30"), Line("codigo_seguranca", "123")>>,
              <<Line("cartao_numero", "4000000000000002")>> }
      [] kind = "company" ->
            { <<Line("nome", "ACME Ltda"), Line("cnpj", "11.222.333/0001-81")>>,
              <<Line("markup", "<span>"), Line("nome", "Beta ME")>> }
      [] kind = "city" ->
            { <<Line("markup", "<option>"), Line("", "Sao Paulo"),
                Line("", "Adamantina")>>,
              <<Line("", "Rio Branco")>> }
      [] kind = "people" ->
            { <<Line("json", "Ana")>>, <<Line("json", "Rui"), Line("json", "Bia")>> }

\* what fordev_request does once the request is out: it raises the transport's
\* error, or returns {'msg': ..., 'data': ...}
Replies(kind) ==
    {[msg |-> "success", data |-> PyStr(b)] : b \in Bodies(kind)}
      \cup {[msg |-> "failure", data |-> PyStr(e)] : e \in ErrorTexts}
      \cup {[msg |-> "raise", data |-> PyStr(<<>>)]}

TransportError == [exc |-> "TransportError"]

NoResp == [msg |-> "none"]

Request(content_length, referer, payload) ==
    [content_length |-> content_length, referer |-> referer, payload |-> payload]

FieldLabels(kind) ==
    CASE kind = "bank_account" -> {"conta_corrente", "agencia", "banco", "cidade", "estado"}
      [] kind = "vehicle" -> {"marca", "modelo", "ano", "renavam", "placa_veiculo", "cor"}
      [] kind = "credit_card" -> {"cartao_numero", "data_validade", "codigo_seguranca"}
      [] kind = "company" -> {"nome", "cnpj", "ie", "data_abertura", "site", "email"}

\* record filter: the labelled lines of the kind become a mapping label -> value;
\* a label the text does not hold is left out
filter_record(kind, data) ==
    LET text == data.v
        present == {text[i].label : i \in DOMAIN text} \cap FieldLabels(kind)
    IN  PyDict([l \in present |->
                  text[CHOOSE i \in DOMAIN text :
                         /\ text[i].label = l
                         /\ \A j \in 1..(i - 1) : text[j].label # l].value])

NotMarkup(line) == line.label # "markup"

\* list filter: the names, in the order received, markup removed
filter_city_name(data) ==
    LET names == SelectSeq(data.v, NotMarkup)
    IN  PyList([i \in DOMAIN names |-> names[i].value])

filter_bank_account_info(data) == filter_record("bank_account", data)
filter_vehicle_info(data) == filter_record("vehicle", data)
filter_credit_card_info(data) == filter_record("credit_card", data)
filter_company_info(data) == filter_record("company", data)

\* json.loads of the JSON array the people generator receives
json_loads(data) ==
    PyList([i \in DOMAIN data.v |-> PyDict([nome |-> data.v[i].value])])

\* data_format(data_only, data_dict)
data_format(data_only, data_dict) ==
    IF data_only /\ data_dict.msg = "success"
    THEN data_dict.data
    ELSE PyDict(data_dict)

(***************************************************************************)
(* How a call ends.                                                        *)
(***************************************************************************)
\* an exception raised before fordev_request is called
Raised(e) ==
    [pc |-> "raised", result |-> e, wire |-> <<>>, resp |-> NoResp,
     applied |-> <<>>]

\* fordev_request raised: the request is out, the exception propagates
Propagated(request, reply) ==
    [pc |-> "raised", result |-> TransportError, wire |-> <<request>>,
     resp |-> reply, applied |-> <<>>]

Returned(value, request, reply, fns) ==
    [pc |-> "returned", result |-> value, wire |-> <<request>>,
     resp |-> reply, applied |-> fns]

Applied(fn, data) == [fn |-> fn, to |-> data]

\* the same, had the generator asked again after a reported failure
Scalar_retrying(request, reply, data_only) ==
    IF reply.msg = "raise" THEN Propagated(request, reply)
    ELSE [pc |-> "returned", result |-> data_format(data_only, reply),
          wire |-> IF reply.msg = "failure" THEN <<request, request>> ELSE <<request>>,
          resp |-> reply, applied |-> <<>>]

\* r = fordev_request(...); return data_format(data_only=data_only, data_dict=r)
Scalar(request, reply, data_only) ==
    IF reply.msg = "raise" THEN Propagated(request, reply)
    ELSE Returned(data_format(data_only, reply), request, reply, <<>>)

ApplyFilter(fn, data) ==
    CASE fn = "filter_bank_account_info" -> filter_bank_account_info(data)
      [] fn = "filter_vehicle_info" -> filter_vehicle_info(data)
      [] fn = "filter_credit_card_info" -> filter_credit_card_info(data)
      [] fn = "filter_company_info" -> filter_company_info(data)
      [] fn = "filter_city_name" -> filter_city_name(data)

\* r = fordev_request(...); r['data'] = fn(r['data']);
\* return data_format(data_only=data_only, data_dict=r)
Filtered(request, reply, fn, data_only) ==
    IF reply.msg = "raise" THEN Propagated(request, reply)
    ELSE LET r == [reply EXCEPT !.data = ApplyFilter(fn, reply.data)]
         IN  Returned(data_format(data_only, r), request, reply,
                      <<Applied(fn, reply.data)>>)

\* 'S' if formatting else 'N'
pontuacao(formatting) == IF formatting THEN "S" ELSE "N"

(***************************************************************************)
(* The generators.  Each operator is the function of the same name: from   *)
(* its arguments, the transport's reply and the random seed to the way     *)
(* the call ends.                                                          *)
(***************************************************************************)
certificate_types ==
    ("I" :> "Indiferente") @@ ("B" :> "nascimento") @@ ("W" :> "casamento")
      @@ ("R" :> "casamento_religioso") @@ ("D" :> "obito")

certificate(type_, formatting, data_only, reply) ==
    LET t == upper(type_)
    IN  IF t \notin DOMAIN certificate_types
        THEN Raised(ValueError(OptionMsg(
                 "The certificate type \"{type_}\" is invalid. Enter a valid type.", t)))
        ELSE Scalar(Request(67, "gerador_numero_certidoes",
                            [acao |-> "gerador_certidao",
                             pontuacao |-> pontuacao(formatting),
                             tipo_certidao |-> certificate_types[t]]),
                    reply, data_only)

cnh(data_only, reply) ==
    Scalar(Request(14, "gerador_de_cnh", [acao |-> "gerar_cnh"]), reply, data_only)

\* not (0 <= bank <= 5)
bank_account_bank_invalid(bank) == ~ (0 <= bank /\ bank <= 5)

\* ['', 2, 121, 85, 120, 151][bank]
bank_account_code(bank) ==
    <<PyStr(""), PyInt(2), PyInt(121), PyInt(85), PyInt(120), PyInt(151)>>[bank + 1]

bank_account(bank, uf_code, data_only, reply) ==
    IF bank_account_bank_invalid(bank)
    THEN Raised(ValueError(RangeMsg(
             "The bank code value \"{bank}\" is invalid. Enter a valid bank code.",
             bank, 0, 5)))
    ELSE LET uf_upper == upper(uf_code)
         IN  IF raise_for_invalid_uf(uf_upper, TRUE)
             THEN Raised(invalid_uf_error(uf_upper))
             ELSE Filtered(Request(45, "gerador_conta_bancaria",
                                   [acao |-> "gerar_conta_bancaria",
                                    estado |-> uf_upper,
                                    banco |-> bank_account_code(bank)]),
                           reply, "filter_bank_account_info", data_only)

cpf(uf_code, formatting, data_only, reply) ==
    LET uf_upper == upper(uf_code)
    IN  IF raise_for_invalid_uf(uf_upper, TRUE)
        THEN Raised(invalid_uf_error(uf_upper))
        ELSE Scalar(Request(IF uf_upper = "" THEN 38 ELSE 40, "gerador_de_cpf",
                            [acao |-> "gerar_cpf",
                             pontuacao |-> pontuacao(formatting),
                             cpf_estado |-> uf_upper]),
                    reply, data_only)

pis_pasep(formatting, data_only, reply) ==
    Scalar(Request(26, "gerador_de_pis_pasep",
                   [acao |-> "gerar_pis", pontuacao |-> pontuacao(formatting)]),
           reply, data_only)

renavam(data_only, reply) ==
    Scalar(Request(18, "gerador_de_renavam", [acao |-> "gerar_renavam"]),
           reply, data_only)

\* not (0 <= brand_code <= 87)
vehicle_brand_code_invalid(brand_code) == ~ (0 <= brand_code /\ brand_code <= 87)

vehicle(brand_code, uf_code, formatting, data_only, reply) ==
    IF vehicle_brand_code_invalid(brand_code)
    THEN Raised(ValueError(RangeMsg(
             "The vehicle brand code value \"{brand_code}\" is invalid. Enter a valid vehicle brand code.",
             brand_code, 0, 87)))
    ELSE LET fipe == IF brand_code # 0
                     THEN tables.ALL_VEHICLE_BRANDS[brand_code].code
                     ELSE PyStr("")
             uf_upper == upper(uf_code)
         IN  IF raise_for_invalid_uf(uf_upper, TRUE)
             THEN Raised(invalid_uf_error(uf_upper))
             ELSE Filtered(Request(62, "gerador_de_veiculos",
                                   [acao |-> "gerar_veiculo",
                                    pontuacao |-> pontuacao(formatting),
                                    estado |-> uf_upper,
                                    fipe_codigo_marca |-> fipe]),
                           reply, "filter_vehicle_info", data_only)

\* not (1 <= n <= 87)
vehicle_brand_n_invalid(n) == ~ (1 <= n /\ n <= 87)

\* raise ValueError(msg_error) of vehicle_brand
vehicle_brand_error(n) ==
    ValueError(RangeMsg(
        "The n value \"{n}\" is invalid. Enter a valid number of UF.", n, 1, 27))

\* random_sample([v_brand['brand_name'] for v_brand in ALL_VEHICLE_BRANDS.values()], n)
vehicle_brand_sample(n, seed) ==
    random_sample([i \in DOMAIN tables.ALL_VEHICLE_BRANDS |->
                       tables.ALL_VEHICLE_BRANDS[i].brand_name],
                  n, seed)

\* if data_only: return full_data['data'] else: return full_data
vehicle_brand_return(data_only, full_data) ==
    IF data_only THEN full_data.data ELSE PyDict(full_data)

\* a value returned without any request
Local(value) ==
    [pc |-> "returned", result |-> value, wire |-> <<>>, resp |-> NoResp,
     applied |-> <<>>]

vehicle_brand(n, data_only, seed) ==
    IF vehicle_brand_n_invalid(n)
    THEN Raised(vehicle_brand_error(n))
    ELSE Local(vehicle_brand_return(
                   data_only,
                   [msg |-> "success", data |-> PyList(vehicle_brand_sample(n, seed))]))

vehicle_plate(uf_code, formatting, data_only, reply) ==
    LET uf_upper == upper(uf_code)
    IN  IF raise_for_invalid_uf(uf_upper, TRUE)
        THEN Raised(invalid_uf_error(uf_upper))
        ELSE Scalar(Request(IF uf_upper = "" THEN 36 ELSE 38,
                            "gerador_de_placa_automoveis",
                            [acao |-> "gerar_placa",
                             pontuacao |-> pontuacao(formatting),
                             estado |-> uf_upper]),
                    reply, data_only)

cnpj(formatting, data_only, reply) ==
    Scalar(Request(27, "gerador_de_cnpj",
                   [acao |-> "gerar_cnpj", pontuacao |-> pontuacao(formatting)]),
           reply, data_only)

rg(formatting, data_only, reply) ==
    Scalar(Request(25, "gerador_de_rg",
                   [acao |-> "gerar_rg", pontuacao |-> pontuacao(formatting)]),
           reply, data_only)

\* the include_blank that state_registration passes to raise_for_invalid_uf
state_registration_include_blank == FALSE

state_registration(uf_code, formatting, data_only, reply) ==
    LET uf_upper == upper(uf_code)
    IN  IF raise_for_invalid_uf(uf_upper, state_registration_include_blank)
        THEN Raised(invalid_uf_error(uf_upper))
        ELSE Scalar(Request(35, "gerador_de_inscricao_estadual",
                            [acao |-> "gerar_ie",
                             pontuacao |-> pontuacao(formatting),
                             estado |-> uf_upper]),
                    reply, data_only)

RECURSIVE as_written(_)
as_written(s) == IF s = <<>> THEN "" ELSE Head(s) \o as_written(Tail(s))

\* voter_title, had it not upper-cased uf_code
voter_title_as_written(uf_code) == as_written(uf_code)

\* uf_code = uf_code.upper() of voter_title
voter_title_upper(uf_code) == upper(uf_code)

voter_title(uf_code, data_only, reply) ==
    LET uf_upper == voter_title_upper(uf_code)
    IN  IF raise_for_invalid_uf(uf_upper, FALSE)
        THEN Raised(invalid_uf_error(uf_upper))
        ELSE Scalar(Request(35, "gerador_de_titulo_de_eleitor",
                            [acao |-> "gerar_titulo_eleitor", estado |-> uf_upper]),
                    reply, data_only)

\* not (0 <= bank <= 10)
credit_card_bank_invalid(bank) == ~ (0 <= bank /\ bank <= 10)

credit_card(bank, formatting, data_only, reply, seed) ==
    IF credit_card_bank_invalid(bank)
    THEN Raised(ValueError(RangeMsg(
             "The bank code value \"{bank}\" is invalid. Enter a valid bank code.",
             bank, 0, 10)))
    ELSE LET flag == IF bank # 0
                     THEN tables.ALL_BANK_FLAGS[bank]
                     ELSE random_choice(tables.ALL_BANK_FLAGS, seed)
         IN  Filtered(Request(43, "gerador_de_numero_cartao_credito",
                              [acao |-> "gerar_cc",
                               pontuacao |-> pontuacao(formatting),
                               bandeira |-> flag]),
                      reply, "filter_credit_card_info", data_only)

\* the check of n, had it left 30 out
people_n_invalid_exclusive(n) == ~ (1 <= n /\ n < 30)

\* not (1 <= n <= 30)
people_n_invalid(n) == ~ (1 <= n /\ n <= 30)

\* sex not in ['M', 'F', 'R']
people_sex_invalid(sex) == sex \notin {"M", "F", "R"}

\* not (18 <= age <= 80) and age != 0
people_age_invalid(age) == ~ (18 <= age /\ age <= 80) /\ age # 0

\* the mapping, had 'F' gone out as it came in
people_sexo_unmapped(sex) == IF sex = "M" THEN "H" ELSE IF sex = "F" THEN "F" ELSE "I"

\* 'H' if sex == 'M' else 'M' if sex == 'F' else 'I'
people_sexo(sex) == IF sex = "M" THEN "H" ELSE IF sex = "F" THEN "M" ELSE "I"

\* the returns of people, had the envelope kept the undecoded text
people_return_undecoded(data_only, r) ==
    IF data_only /\ r.msg = "success" THEN json_loads(r.data) ELSE PyDict(r)

\* the three returns of people
people_return(data_only, r) ==
    IF data_only /\ r.msg = "success"
    THEN json_loads(r.data)
    ELSE IF r.msg = "success"
         THEN PyDict([r EXCEPT !.data = json_loads(r.data)])
         ELSE PyDict(r)

people(n, sex, age, uf_code, formatting, data_only, reply) ==
    LET sex_upper == upper(sex)
        uf_upper == upper(uf_code)
    IN  IF people_n_invalid(n)
        THEN Raised(ValueError(RangeMsg(
                 "The n value \"{n}\" is invalid. Enter a valid number of people.",
                 n, 1, 30)))
        ELSE IF people_sex_invalid(sex_upper)
        THEN Raised(ValueError(OptionMsg(
                 "The sex \"{sex}\" is invalid. Enter a valid sex.", sex_upper)))
        ELSE IF people_age_invalid(age)
        THEN Raised(ValueError(RangeMsg(
                 "The age \"{age}\" is invalid. Enter a valid age.", age, 18, 80)))
        ELSE IF raise_for_invalid_uf(uf_upper, TRUE)
        THEN Raised(invalid_uf_error(uf_upper))
        ELSE LET request ==
                   Request(99, "gerador_de_pessoas",
                           [acao |-> "gerar_pessoa",
                            sexo |-> people_sexo(sex_upper),
                            pontuacao |-> pontuacao(formatting),
                            idade |-> age,
                            cep_estado |-> uf_upper,
                            txt_qtde |-> n,
                            cep_cidade |-> IF uf_upper = ""
                                           THEN "Selecione o estado!" ELSE ""])
             IN  IF reply.msg = "raise" THEN Propagated(request, reply)
                 ELSE Returned(people_return(data_only, reply), request, reply,
                               IF reply.msg = "success"
                               THEN <<Applied("json_loads", reply.data)>>
                               ELSE <<>>)

\* not (1 <= age <= 30)
company_age_invalid(age) == ~ (1 <= age /\ age <= 30)

company(uf_code, age, formatting, data_only, reply) ==
    LET uf_upper == upper(uf_code)
    IN  IF raise_for_invalid_uf(uf_upper, FALSE)
        THEN Raised(invalid_uf_error(uf_upper))
        ELSE IF company_age_invalid(age)
        THEN Raised(ValueError(RangeMsg(
                 "The company age value \"{age}\" is invalid. Enter a valid company age.",
                 age, 1, 30)))
        ELSE Filtered(Request(48, "gerador_de_empresas",
                              [acao |-> "gerar_empresa",
                               pontuacao |-> pontuacao(formatting),
                               estado |-> uf_upper,
                               idade |-> age]),
                      reply, "filter_company_info", data_only)

\* not (1 <= n <= 27)
uf_n_invalid(n) == ~ (1 <= n /\ n <= 27)

\* n independent draws, had uf drawn with replacement
uf_sample_with_replacement(n, seed) ==
    [i \in 1..n |-> random_choice(tables.ALL_UF_CODE, seed + i)]

\* random_sample(ALL_UF_CODE, n)
uf_sample(n, seed) == random_sample(tables.ALL_UF_CODE, n, seed)

\* if data_only: return full_data['data'] else: return full_data
uf_return(data_only, full_data) ==
    IF data_only THEN full_data.data ELSE PyDict(full_data)

uf(n, data_only, seed) ==
    IF uf_n_invalid(n)
    THEN Raised(ValueError(RangeMsg(
             "The n value \"{n}\" is invalid. Enter a valid number of UF.", n, 1, 27)))
    ELSE Local(uf_return(data_only,
                         [msg |-> "success", data |-> PyList(uf_sample(n, seed))]))

\* city, had it passed include_blank=True
city_include_blank_allowed == TRUE

\* the include_blank that city passes to raise_for_invalid_uf
city_include_blank == FALSE

city(uf_code, data_only, reply) ==
    LET uf_upper == upper(uf_code)
    IN  IF raise_for_invalid_uf(uf_upper, city_include_blank)
        THEN Raised(invalid_uf_error(uf_upper))
        ELSE Filtered(Request(35, "gerador_de_pessoas",
                              [acao |-> "carregar_cidades", cep_estado |-> uf_upper]),
                      reply, "filter_city_name", data_only)

(***************************************************************************)
(* Arguments the callers pass.                                             *)
(***************************************************************************)
\* a recognized code in every letter case
CaseVariants(code) ==
    {<<a, b>> : a \in {code[1], lower_char(code[1])},
                b \in {code[2], lower_char(code[2])}}

ProbeChars == {"S", "p"}

\* the empty code, one recognized code in mixed case, and short, long and
\* unknown codes
Probes == UNION {[1..k -> ProbeChars] : k \in 0..MaxProbeLen}

\* codes that are no letters, or padded
Oddities == {<<" ">>, <<"S", "P", " ">>, <<" ", "S", "P">>, <<"1", "2">>, <<"X", "X">>}

UfInputs ==
    Probes \cup Oddities
      \cup UNION {CaseVariants(UF_LETTERS[i]) : i \in DOMAIN UF_LETTERS}

\* the ends of a range and what lies next to them, outside
Edges(lo, hi) == ((lo - IntMargin)..lo) \cup (hi..(hi + IntMargin))

\* a whole range and what lies next to it
Span(lo, hi) == (lo - IntMargin)..(hi + IntMargin)

ModeChars == {"M", "F", "R", "B", "W", "D", "I", "H", "X",
              "m", "f", "r", "b", "w", "d", "i", "1"}

TypeInputs == {<<>>, <<"B", "W">>} \cup {<<c>> : c \in ModeChars}

SexInputs == {<<>>, <<"M", "F">>} \cup
             {<<c>> : c \in {"M", "F", "R", "m", "f", "r", "H"}}

Seeds == 0..MaxSeed

(***************************************************************************)
(* What a call leaves in the module-level tables.  vehicle, credit_card    *)
(* and raise_for_invalid_uf subscript or scan them; vehicle_brand and      *)
(* credit_card sample from lists built for the call; uf alone hands a      *)
(* table itself to the sampler.                                            *)
(***************************************************************************)
\* the table after uf, had the sample been cut out of the table itself
uf_population_cut(table, n) == SubSeq(table, 1, Len(table) - n)

\* the table after random_sample(ALL_UF_CODE, n): the sample is a new list
uf_population(table, n) == table

TablesAfter(o, a) ==
    IF o = "uf" /\ ~ uf_n_invalid(a.n)
    THEN [tables EXCEPT !.ALL_UF_CODE = uf_population(@, a.n)]
    ELSE tables

(***************************************************************************)
(* The callers that may be inside generators at the same time.             *)
(***************************************************************************)
Callers == {"c1", "c2"}

\* a caller that is in no call
Outside == [pc |-> "outside"]

(***************************************************************************)
(* The calls.                                                              *)
(***************************************************************************)
Init ==
    /\ pc = "idle"
    /\ op = "none"
    /\ args = <<>>
    /\ wire = <<>>
    /\ resp = NoResp
    /\ applied = <<>>
    /\ result = <<>>
    /\ tables = LoadedTables
    /\ calls = [c \in Callers |-> Outside]

\* generator o is called with arguments a and ends as out
Call(o, a, out) ==
    /\ op' = o
    /\ args' = a
    /\ pc' = out.pc
    /\ result' = out.result
    /\ wire' = out.wire
    /\ resp' = out.resp
    /\ applied' = out.applied
    /\ tables' = TablesAfter(o, a)
    /\ UNCHANGED calls

Certificate ==
    /\ pc = "idle"
    /\ \E type_ \in TypeInputs, formatting \in BOOLEAN, data_only \in BOOLEAN,
       reply \in Replies("scalar") :
        Call("certificate",
             [type_ |-> type_, formatting |-> formatting, data_only |-> data_only],
             certificate(type_, formatting, data_only, reply))

Cnh ==
    /\ pc = "idle"
    /\ \E data_only \in BOOLEAN, reply \in Replies("scalar") :
        Call("cnh", [data_only |-> data_only], cnh(data_only, reply))

BankAccount ==
    /\ pc = "idle"
    /\ \E bank \in Span(0, 5), uf_code \in UfInputs, data_only \in BOOLEAN,
       reply \in Replies("bank_account") :
        Call("bank_account",
             [bank |-> bank, uf_code |-> uf_code, data_only |-> data_only],
             bank_account(bank, uf_code, data_only, reply))

Cpf ==
    /\ pc = "idle"
    /\ \E uf_code \in UfInputs, formatting \in BOOLEAN, data_only \in BOOLEAN,
       reply \in Replies("scalar") :
        Call("cpf",
             [uf_code |-> uf_code, formatting |-> formatting, data_only |-> data_only],
             cpf(uf_code, formatting, data_only, reply))

PisPasep ==
    /\ pc = "idle"
    /\ \E formatting \in BOOLEAN, data_only \in BOOLEAN, reply \in Replies("scalar") :
        Call("pis_pasep", [formatting |-> formatting, data_only |-> data_only],
             pis_pasep(formatting, data_only, reply))

Renavam ==
    /\ pc = "idle"
    /\ \E data_only \in BOOLEAN, reply \in Replies("scalar") :
        Call("renavam", [data_only |-> data_only], renavam(data_only, reply))

Vehicle ==
    /\ pc = "idle"
    /\ \E brand_code \in Edges(0, 87), uf_code \in UfInputs, formatting \in BOOLEAN,
       data_only \in BOOLEAN, reply \in Replies("vehicle") :
        Call("vehicle",
             [brand_code |-> brand_code, uf_code |-> uf_code,
              formatting |-> formatting, data_only |-> data_only],
             vehicle(brand_code, uf_code, formatting, data_only, reply))

VehicleBrand ==
    /\ pc = "idle"
    /\ \E n \in Span(1, 87), data_only \in BOOLEAN, seed \in Seeds :
        Call("vehicle_brand", [n |-> n, data_only |-> data_only],
             vehicle_brand(n, data_only, seed))

VehiclePlate ==
    /\ pc = "idle"
    /\ \E uf_code \in UfInputs, formatting \in BOOLEAN, data_only \in BOOLEAN,
       reply \in Replies("scalar") :
        Call("vehicle_plate",
             [uf_code |-> uf_code, formatting |-> formatting, data_only |-> data_only],
             vehicle_plate(uf_code, formatting, data_only, reply))

Cnpj ==
    /\ pc = "idle"
    /\ \E formatting \in BOOLEAN, data_only \in BOOLEAN, reply \in Replies("scalar") :
        Call("cnpj", [formatting |-> formatting, data_only |-> data_only],
             cnpj(formatting, data_only, reply))

Rg ==
    /\ pc = "idle"
    /\ \E formatting \in BOOLEAN, data_only \in BOOLEAN, reply \in Replies("scalar") :
        Call("rg", [formatting |-> formatting, data_only |-> data_only],
             rg(formatting, data_only, reply))

StateRegistration ==
    /\ pc = "idle"
    /\ \E uf_code \in UfInputs, formatting \in BOOLEAN, data_only \in BOOLEAN,
       reply \in Replies("scalar") :
        Call("state_registration",
             [uf_code |-> uf_code, formatting |-> formatting, data_only |-> data_only],
             state_registration(uf_code, formatting, data_only, reply))

VoterTitle ==
    /\ pc = "idle"
    /\ \E uf_code \in UfInputs, data_only \in BOOLEAN, reply \in Replies("scalar") :
        Call("voter_title", [uf_code |-> uf_code, data_only |-> data_only],
             voter_title(uf_code, data_only, reply))

CreditCard ==
    /\ pc = "idle"
    /\ \E bank \in Span(0, 10), formatting \in BOOLEAN, data_only \in BOOLEAN,
       reply \in Replies("credit_card"), seed \in Seeds :
        Call("credit_card",
             [bank |-> bank, formatting |-> formatting, data_only |-> data_only],
             credit_card(bank, formatting, data_only, reply, seed))

People ==
    /\ pc = "idle"
    /\ \E n \in Edges(1, 30), sex \in SexInputs, age \in Edges(18, 80) \cup Edges(0, 0),
       uf_code \in Probes, formatting \in BOOLEAN, data_only \in BOOLEAN,
       reply \in Replies("people") :
        Call("people",
             [n |-> n, sex |-> sex, age |-> age, uf_code |-> uf_code,
              formatting |-> formatting, data_only |-> data_only],
             people(n, sex, age, uf_code, formatting, data_only, reply))

Company ==
    /\ pc = "idle"
    /\ \E uf_code \in UfInputs, age \in Edges(1, 30), formatting \in BOOLEAN,
       data_only \in BOOLEAN, reply \in Replies("company") :
        Call("company",
             [uf_code |-> uf_code, age |-> age, formatting |-> formatting,
              data_only |-> data_only],
             company(uf_code, age, formatting, data_only, reply))

Uf ==
    /\ pc = "idle"
    /\ \E n \in Span(1, 27), data_only \in BOOLEAN, seed \in Seeds :
        Call("uf", [n |-> n, data_only |-> data_only], uf(n, data_only, seed))

City ==
    /\ pc = "idle"
    /\ \E uf_code \in UfInputs, data_only \in BOOLEAN, reply \in Replies("city") :
        Call("city", [uf_code |-> uf_code, data_only |-> data_only],
             city(uf_code, data_only, reply))

\* the caller is done with the outcome; nothing of the call is kept
Discard ==
    /\ pc # "idle"
    /\ pc' = "idle"
    /\ op' = "none"
    /\ args' = <<>>
    /\ wire' = <<>>
    /\ resp' = NoResp
    /\ applied' = <<>>
    /\ result' = <<>>
    /\ UNCHANGED <<tables, calls>>

Next ==
    \/ Certificate
    \/ Cnh
    \/ BankAccount
    \/ Cpf
    \/ PisPasep
    \/ Renavam
    \/ Vehicle
    \/ VehicleBrand
    \/ VehiclePlate
    \/ Cnpj
    \/ Rg
    \/ StateRegistration
    \/ VoterTitle
    \/ CreditCard
    \/ People
    \/ Company
    \/ Uf
    \/ City
    \/ Discard

Spec == Init /\ [][Next]_vars

(***************************************************************************)
(* The documented contract, as the properties below refer to it.           *)
(***************************************************************************)
Called == pc # "idle"

InvalidArgument == pc = "raised" /\ result.exc = "ValueError"

NoRequest == wire = <<>>

OneRequest == Len(wire) = 1

UfOps == {"bank_account", "cpf", "vehicle", "vehicle_plate", "state_registration",
          "voter_title", "people", "company", "city"}

BlankOps == {"bank_account", "cpf", "vehicle", "vehicle_plate", "people"}

LocalOps == {"uf", "vehicle_brand"}

Recognized(u) == \E i \in DOMAIN ALL_UF_CODE : ALL_UF_CODE[i] = u

\* <<operation, parameter, lo, hi>>
Ranges ==
    { <<"bank_account", "bank", 0, 5>>, <<"vehicle", "brand_code", 0, 87>>,
      <<"vehicle_brand", "n", 1, 87>>, <<"credit_card", "bank", 0, 10>>,
      <<"people", "n", 1, 30>>, <<"people", "age", 18, 80>>,
      <<"company", "age", 1, 30>>, <<"uf", "n", 1, 27>> }

InRange(r) == args[r[2]] \in r[3]..r[4]

\* the age people takes for "not given"
UnsetAge(r) == r[1] = "people" /\ r[2] = "age" /\ args.age = 0

RegionOK ==
    op \in UfOps =>
        \/ Recognized(upper(args.uf_code))
        \/ args.uf_code = <<>> /\ op \in BlankOps

AcceptedType(t) ==
    Len(t) = 1 /\ t[1] \in {"B", "W", "R", "D", "I", "b", "w", "r", "d", "i"}

AcceptedSex(x) == Len(x) = 1 /\ x[1] \in {"M", "F", "R", "m", "f", "r"}

ModeOK ==
    /\ op = "certificate" => AcceptedType(args.type_)
    /\ op = "people" => AcceptedSex(args.sex)

\* every argument but the one of range r is acceptable
OthersOK(r) ==
    /\ RegionOK
    /\ ModeOK
    /\ \A q \in Ranges : (q[1] = op /\ q # r) => (InRange(q) \/ UnsetAge(q))

ArgsOK == RegionOK /\ ModeOK /\ \A q \in Ranges : q[1] = op => (InRange(q) \/ UnsetAge(q))

(***************************************************************************)
(* C1.  A region code whose upper-cased form is not recognized (the blank  *)
(* code counting as recognized only for bank_account, cpf, vehicle,        *)
(* vehicle_plate and people) makes the call fail with ValueError, and no   *)
(* request has gone out.                                                   *)
(***************************************************************************)
C1_InvalidRegionRejected ==
    (Called /\ op \in UfOps /\ ~ RegionOK) => (InvalidArgument /\ NoRequest)

C1_Witness ==
    /\ op = "city" /\ args.uf_code = <<>>
    /\ InvalidArgument /\ NoRequest

(***************************************************************************)
(* C2 as stated: every value outside a documented range [lo, hi] fails     *)
(* with ValueError, and lo and hi pass validation.                         *)
(***************************************************************************)
C2_Original ==
    Called =>
        \A r \in Ranges : r[1] = op =>
            /\ ~ InRange(r) => InvalidArgument
            /\ (args[r[2]] \in {r[3], r[4]} /\ OthersOK(r)) => ~ InvalidArgument

(***************************************************************************)
(* C2 as amended: every value outside a documented range fails with        *)
(* ValueError, except age = 0 of people (its default), which passes; lo    *)
(* and hi pass validation.                                                 *)
(***************************************************************************)
C2_RangesEnforced ==
    Called =>
        \A r \in Ranges : r[1] = op =>
            /\ (~ InRange(r) /\ ~ UnsetAge(r)) => InvalidArgument
            /\ (args[r[2]] \in {r[3], r[4]} /\ OthersOK(r)) => ~ InvalidArgument
            /\ (UnsetAge(r) /\ OthersOK(r)) => ~ InvalidArgument

C2_Witness ==
    /\ op = "people" /\ args.n = 30 /\ args.age = 0
    /\ pc = "returned"

(***************************************************************************)
(* C3.  The ValueError of a numeric-range check names the offending value  *)
(* and cites the range the check enforces.                                 *)
(***************************************************************************)
C3_MessageCitesEnforcedRange ==
    (InvalidArgument /\ result.msg.cites # <<>>) =>
        \E r \in Ranges :
            /\ r[1] = op
            /\ ~ InRange(r)
            /\ result.msg.value = args[r[2]]
            /\ result.msg.cites = <<r[3], r[4]>>

(***************************************************************************)
(* C4.  uf and vehicle_brand, called with a count n inside their range,    *)
(* return n entries of their reference table, no entry twice.              *)
(***************************************************************************)
Sampled == IF args.data_only THEN result.v ELSE result.v.data.v

TableOf(o) ==
    IF o = "uf"
    THEN {ALL_UF_CODE[i] : i \in DOMAIN ALL_UF_CODE}
    ELSE {ALL_VEHICLE_BRANDS[i].brand_name : i \in DOMAIN ALL_VEHICLE_BRANDS}

C4_SampleExactDistinct ==
    (Called /\ op \in LocalOps /\ ArgsOK) =>
        /\ pc = "returned"
        /\ Len(Sampled) = args.n
        /\ \A i, j \in DOMAIN Sampled : i # j => Sampled[i] # Sampled[j]
        /\ \A i \in DOMAIN Sampled : Sampled[i] \in TableOf(op)

C4_Witness ==
    /\ op = "vehicle_brand" /\ args.n = 87
    /\ pc = "returned" /\ Len(Sampled) = 87

(***************************************************************************)
(* C5.  A call sends exactly one request when it is a network generator    *)
(* whose arguments pass validation, and none when validation fails or      *)
(* when it is uf or vehicle_brand.                                         *)
(***************************************************************************)
C5_RequestCount ==
    Called =>
        IF op \in LocalOps THEN NoRequest
        ELSE IF ArgsOK THEN OneRequest
        ELSE NoRequest

C5_Witness ==
    /\ op = "company" /\ resp.msg = "raise"
    /\ pc = "raised" /\ OneRequest

(***************************************************************************)
(* C6.  On success, data_only=True returns the payload itself and          *)
(* data_only=False returns {'msg': 'success', 'data': <that payload>}.     *)
(***************************************************************************)
\* the payload of a successful response, by generator
Payload(o, data) ==
    CASE o = "bank_account" -> filter_bank_account_info(data)
      [] o = "vehicle" -> filter_vehicle_info(data)
      [] o = "credit_card" -> filter_credit_card_info(data)
      [] o = "company" -> filter_company_info(data)
      [] o = "city" -> filter_city_name(data)
      [] o = "people" -> json_loads(data)
      [] OTHER -> data

\* the lists a local generator can sample for a count n
Samples(o, n) ==
    IF o = "uf"
    THEN {PyList(random_sample(ALL_UF_CODE, n, seed)) : seed \in Seeds}
    ELSE {PyList(random_sample(BRAND_NAMES, n, seed)) : seed \in Seeds}

C6_DataOnlyUnwraps ==
    /\ (pc = "returned" /\ op \in LocalOps) =>
          \E list \in Samples(op, args.n) :
              IF args.data_only
              THEN result = list
              ELSE result = PyDict([msg |-> "success", data |-> list])
    /\ (pc = "returned" /\ op \notin LocalOps /\ resp.msg = "success") =>
          IF args.data_only
          THEN result = Payload(op, resp.data)
          ELSE result = PyDict([msg |-> "success", data |-> Payload(op, resp.data)])

C6_Witness ==
    /\ op = "people" /\ ~ args.data_only
    /\ pc = "returned" /\ resp.msg = "success"
    /\ result.v.data.kind = "list"

(***************************************************************************)
(* C7.  When the remote service reports a failure, the value returned      *)
(* shows the failure, status and error text, whatever data_only is; people *)
(* does not JSON-decode the error text.                                    *)
(***************************************************************************)
C7_FailureVisible ==
    (pc = "returned" /\ resp.msg = "failure") =>
        /\ result.kind = "dict"
        /\ result.v.msg = "failure"
        /\ result.v.data = resp.data
        /\ \A i \in DOMAIN applied : applied[i].fn # "json_loads"

(***************************************************************************)
(* C8.  A failure the remote service reports is returned, not raised, with *)
(* its text unchanged; no record or list filter is run on the error text.  *)
(***************************************************************************)
C8_FailureTextPreserved ==
    (Called /\ resp.msg = "failure") =>
        /\ pc = "returned"
        /\ applied = <<>>
        /\ result = PyDict([msg |-> "failure", data |-> resp.data])

(***************************************************************************)
(* C9.  A recognized region code in any letter case passes validation, the *)
(* region field of the request carries the upper-cased code, and the       *)
(* requests of two calls that differ only in the case of uf_code are equal.*)
(***************************************************************************)
RegionField(o) ==
    CASE o \in {"people", "city"} -> "cep_estado"
      [] o = "cpf" -> "cpf_estado"
      [] OTHER -> "estado"

\* the call of generator o with arguments a, the transport answering reply
Rerun(o, a, reply) ==
    CASE o = "bank_account" -> bank_account(a.bank, a.uf_code, a.data_only, reply)
      [] o = "cpf" -> cpf(a.uf_code, a.formatting, a.data_only, reply)
      [] o = "vehicle" ->
            vehicle(a.brand_code, a.uf_code, a.formatting, a.data_only, reply)
      [] o = "vehicle_plate" -> vehicle_plate(a.uf_code, a.formatting, a.data_only, reply)
      [] o = "state_registration" ->
            state_registration(a.uf_code, a.formatting, a.data_only, reply)
      [] o = "voter_title" -> voter_title(a.uf_code, a.data_only, reply)
      [] o = "people" ->
            people(a.n, a.sex, a.age, a.uf_code, a.formatting, a.data_only, reply)
      [] o = "company" -> company(a.uf_code, a.age, a.formatting, a.data_only, reply)
      [] o = "city" -> city(a.uf_code, a.data_only, reply)

SameCode(v, w) == Len(v) = Len(w) /\ \A i \in DOMAIN v : lower_char(v[i]) = lower_char(w[i])

BothCases(c) == {upper_char(c), lower_char(c)}

\* a two-letter code in its four spellings
Spellings(w) == {<<a, b>> : a \in BothCases(w[1]), b \in BothCases(w[2])}

C9_RegionCaseInsensitive ==
    (Called /\ op \in UfOps /\ args.uf_code # <<>> /\ ArgsOK) =>
        /\ OneRequest
        /\ \E i \in DOMAIN UF_LETTERS :
              /\ SameCode(UF_LETTERS[i], args.uf_code)
              /\ wire[1].payload[RegionField(op)] = ALL_UF_CODE[i]
        /\ \A v \in Spellings(args.uf_code) :
              Rerun(op, [args EXCEPT !.uf_code = v], resp).wire = wire

C9_Witness ==
    /\ op = "voter_title" /\ args.uf_code = <<"s", "p">>
    /\ OneRequest /\ wire[1].payload.estado = "SP"

(***************************************************************************)
(* C10.  certificate takes exactly B, W, R, D, I and people exactly M, F,  *)
(* R, in either case; any other value fails with ValueError before any     *)
(* request, and the request carries the remote code of the letter.         *)
(***************************************************************************)
RemoteType ==
    ("B" :> "nascimento") @@ ("W" :> "casamento") @@ ("R" :> "casamento_religioso")
      @@ ("D" :> "obito") @@ ("I" :> "Indiferente")

RemoteSex == ("M" :> "H") @@ ("F" :> "M") @@ ("R" :> "I")

C10_ModeLettersClosed ==
    /\ (Called /\ op = "certificate") =>
          IF AcceptedType(args.type_)
          THEN /\ OneRequest
               /\ wire[1].payload.tipo_certidao = RemoteType[upper_char(args.type_[1])]
          ELSE InvalidArgument /\ NoRequest
    /\ (Called /\ op = "people") =>
          IF AcceptedSex(args.sex)
          THEN ArgsOK =>
                 /\ OneRequest
                 /\ wire[1].payload.sexo = RemoteSex[upper_char(args.sex[1])]
          ELSE InvalidArgument /\ NoRequest

C10_Witness ==
    /\ op = "people" /\ args.sex = <<"f">>
    /\ OneRequest /\ wire[1].payload.sexo = "M"


(***************************************************************************)
(* Concurrent callers.  A caller enters a generator: the arguments are     *)
(* validated and the tables read, and the call either ends there or sends  *)
(* its request and blocks.  The reply then arrives, the call filters and   *)
(* formats it, and ends.  Between the two steps any other caller may run.  *)
(***************************************************************************)
\* the generator named o on arguments a, given the reply to its request and
\* the seed of its random draw
Generate(o, a, reply, seed) ==
    CASE o = "certificate" -> certificate(a.type_, a.formatting, a.data_only, reply)
      [] o = "cnh" -> cnh(a.data_only, reply)
      [] o = "bank_account" -> bank_account(a.bank, a.uf_code, a.data_only, reply)
      [] o = "cpf" -> cpf(a.uf_code, a.formatting, a.data_only, reply)
      [] o = "pis_pasep" -> pis_pasep(a.formatting, a.data_only, reply)
      [] o = "renavam" -> renavam(a.data_only, reply)
      [] o = "vehicle" ->
             vehicle(a.brand_code, a.uf_code, a.formatting, a.data_only, reply)
      [] o = "vehicle_brand" -> vehicle_brand(a.n, a.data_only, seed)
      [] o = "vehicle_plate" ->
             vehicle_plate(a.uf_code, a.formatting, a.data_only, reply)
      [] o = "cnpj" -> cnpj(a.formatting, a.data_only, reply)
      [] o = "rg" -> rg(a.formatting, a.data_only, reply)
      [] o = "state_registration" ->
             state_registration(a.uf_code, a.formatting, a.data_only, reply)
      [] o = "voter_title" -> voter_title(a.uf_code, a.data_only, reply)
      [] o = "credit_card" ->
             credit_card(a.bank, a.formatting, a.data_only, reply, seed)
      [] o = "people" ->
             people(a.n, a.sex, a.age, a.uf_code, a.formatting, a.data_only, reply)
      [] o = "company" ->
             company(a.uf_code, a.age, a.formatting, a.data_only, reply)
      [] o = "uf" -> uf(a.n, a.data_only, seed)
      [] o = "city" -> city(a.uf_code, a.data_only, reply)

\* what fordev_request may answer to generator o
RepliesTo(o) ==
    CASE o \in LocalOps -> {NoResp}
      [] o \in {"bank_account", "vehicle", "credit_card", "people", "company", "city"} ->
             Replies(o)
      [] OTHER -> Replies("scalar")

\* a call by a concurrent caller
ACall(o, a, seed) == [op |-> o, args |-> a, seed |-> seed]

\* a recognized code in either case, and an unknown one
SomeUf == {<<"S", "P">>, <<"r", "j">>, <<"X", "X">>}

\* the calls concurrent callers make: every generator, with arguments it
\* accepts and arguments it rejects
ConcurrentCalls ==
    {ACall("certificate", [type_ |-> t, formatting |-> TRUE, data_only |-> TRUE], 0) :
         t \in {<<"b">>, <<"X">>}}
      \cup {ACall("cnh", [data_only |-> d], 0) : d \in BOOLEAN}
      \cup {ACall("bank_account", [bank |-> b, uf_code |-> u, data_only |-> TRUE], 0) :
                b \in {2, 6}, u \in SomeUf}
      \cup {ACall("cpf", [uf_code |-> u, formatting |-> TRUE, data_only |-> TRUE], 0) :
                u \in SomeUf}
      \cup {ACall("pis_pasep", [formatting |-> f, data_only |-> TRUE], 0) :
                f \in BOOLEAN}
      \cup {ACall("renavam", [data_only |-> d], 0) : d \in BOOLEAN}
      \cup {ACall("vehicle", [brand_code |-> b, uf_code |-> u, formatting |-> TRUE,
                              data_only |-> TRUE], 0) :
                b \in {0, 87, 88}, u \in SomeUf}
      \cup {ACall("vehicle_brand", [n |-> n, data_only |-> TRUE], seed) :
                n \in {0, 2, 87}, seed \in Seeds}
      \cup {ACall("vehicle_plate", [uf_code |-> u, formatting |-> TRUE,
                                    data_only |-> TRUE], 0) : u \in SomeUf}
      \cup {ACall("cnpj", [formatting |-> f, data_only |-> TRUE], 0) : f \in BOOLEAN}
      \cup {ACall("rg", [formatting |-> f, data_only |-> TRUE], 0) : f \in BOOLEAN}
      \cup {ACall("state_registration", [uf_code |-> u, formatting |-> TRUE,
                                         data_only |-> TRUE], 0) : u \in SomeUf}
      \cup {ACall("voter_title", [uf_code |-> u, data_only |-> TRUE], 0) :
                u \in SomeUf}
      \cup {ACall("credit_card", [bank |-> b, formatting |-> TRUE, data_only |-> TRUE],
                  seed) : b \in {0, 10, 11}, seed \in Seeds}
      \cup {ACall("people", [n |-> n, sex |-> <<"r">>, age |-> 0, uf_code |-> u,
                             formatting |-> TRUE, data_only |-> TRUE], 0) :
                n \in {0, 2}, u \in SomeUf}
      \cup {ACall("company", [uf_code |-> u, age |-> g, formatting |-> TRUE,
                              data_only |-> TRUE], 0) :
                u \in SomeUf, g \in {1, 31}}
      \cup {ACall("uf", [n |-> n, data_only |-> d], seed) :
                n \in {0, 1, 27}, d \in BOOLEAN, seed \in Seeds}
      \cup {ACall("city", [uf_code |-> u, data_only |-> TRUE], 0) : u \in SomeUf}

\* the ways call k can end, one for each reply, with the tables as they are
\* when the call reads them
Ends(k) == [reply \in RepliesTo(k.op) |-> Generate(k.op, k.args, reply, k.seed)]

\* the call is over: it returned or raised
Done(k, reply, out) ==
    [pc |-> "done", op |-> k.op, args |-> k.args, seed |-> k.seed,
     reply |-> reply, outcome |-> out]

\* the call is blocked in fordev_request
Waiting(k, ends) ==
    [pc |-> "waiting", op |-> k.op, args |-> k.args, seed |-> k.seed, ends |-> ends]

\* caller c calls a generator, which runs up to its request, or to its end
\* if it makes none
Enter(c) ==
    /\ calls[c].pc = "outside"
    /\ \E k \in ConcurrentCalls :
        LET ends == Ends(k)
            any == CHOOSE reply \in DOMAIN ends : TRUE
        IN  /\ calls' = [calls EXCEPT ![c] =
                            IF ends[any].wire = <<>>
                            THEN Done(k, NoResp, ends[any])
                            ELSE Waiting(k, ends)]
            /\ tables' = TablesAfter(k.op, k.args)
    /\ UNCHANGED <<pc, op, args, wire, resp, applied, result>>

\* fordev_request comes back to caller c, whose call runs to its end
Receive(c) ==
    /\ calls[c].pc = "waiting"
    /\ \E reply \in DOMAIN calls[c].ends :
        calls' = [calls EXCEPT ![c] = Done(calls[c], reply, calls[c].ends[reply])]
    /\ UNCHANGED <<pc, op, args, wire, resp, applied, result, tables>>

\* caller c is done with the outcome; nothing of the call is kept
Leave(c) ==
    /\ calls[c].pc = "done"
    /\ calls' = [calls EXCEPT ![c] = Outside]
    /\ UNCHANGED <<pc, op, args, wire, resp, applied, result, tables>>

NextCallers ==
    \/ \E c \in Callers : Enter(c)
    \/ \E c \in Callers : Receive(c)
    \/ \E c \in Callers : Leave(c)

SpecCallers == Init /\ [][NextCallers]_vars

====
